---- MODULE Spec2Model ----
(***************************************************************************)
(* TronTransactionMonitor (tronlistener.py): the polling loop of run(),    *)
(* one cycle of process_transactions(), the admission predicate            *)
(* is_new_transaction() and the clean-up of processed_transactions.        *)
(*                                                                         *)
(* Time.  A datetime is an integer number of microseconds (the resolution  *)
(* of datetime); a record's timestamp field is a number of milliseconds,   *)
(* as TronScan reports it.  The only place the program reads the clock     *)
(* inside the loop is the first statement of process_transactions, so the  *)
(* clock is advanced by the environment at the top of the loop (time       *)
(* between cycles) and once more before last_check_time is assigned (time  *)
(* spent inside the cycle).                                                *)
(***************************************************************************)
EXTENDS Integers, Sequences, FiniteSets, TLC

\* ---- program constants ----
GRACE == 600000000           \* timedelta(minutes=10), in microseconds
HIGH_WATER == 1000           \* len(processed_transactions) > 1000
KEEP == 500                  \* [-500:]
PAGE_LIMIT == 50             \* 'limit': 50

\* ---- bounds of the model ----
MaxTicks == 1                \* number of clock advances
MaxTransfers == 2            \* records of a token-transfer page, short-run environment
MaxTransactions == 1         \* records of a transaction page, short-run environment
MaxBulkPages == 21           \* full pages of fresh records the source can serve

ClockStep == 10 * 1000       \* one clock advance: 10 ms
StartTime == GRACE + 50 * 1000   \* datetime.now() in __init__

\* ---- fetched records ----
\* A record is the part of a TronScan dict the loop reads: its 'hash' ("" for
\* an absent, null or empty hash), its timestamp field ('block_timestamp'
\* of a transfer, 'timestamp' of a transaction): absent, a number, or a
\* non-empty string, and the state of the fields the renderers read:
\* "well_formed"; "amount_abc" (amount "abc", decimals 3); "malformed"
\* (a field on which the renderer throws: 'toAddress': null of a transaction,
\* 'decimals': 400 of a transfer).
RecM(h, k, v, m) == [hash |-> h, ts_type |-> k, ts |-> v, meta |-> m]
Rec(h, k, v) == RecM(h, k, v, "well_formed")

RecA == Rec("a", "int", 100)
RecB == RecM("b", "int", 200, "amount_abc")
RecC == RecM("c", "int", 600060, "malformed")
RecD == Rec("d", "absent", 0)
RecE == Rec("e", "str", 0)
RecNoHash == Rec("", "int", 600060)

TrackedRecords == {RecA, RecB, RecC, RecD, RecE, RecNoHash}
TrackedHashes == {r.hash : r \in TrackedRecords} \ {""}

FillerHash(i) == ToString(i)
\* the n records after the first `from` fresh ones, all timestamped `ms`
Bulk(from, n, ms) == [i \in 1..n |-> Rec(FillerHash(from + i), "int", ms)]

SeqsUpTo(S, n) == UNION {[1..k -> S] : k \in 0..n}

ShortTransfers == SeqsUpTo(TrackedRecords, MaxTransfers)
ShortTransactions == SeqsUpTo(TrackedRecords, MaxTransactions)
LongPages == {<<>>, <<RecD>>}

\* ---- the outcomes of one HTTP fetch ----
\* "ok": a JSON object whose 'data' is a list of dicts;
\* "RequestException": timeout, connection error, non-2xx (raise_for_status);
\* "JSONDecodeError": response.json() raising json.JSONDecodeError;
\* "TypeError": a JSON body of another shape ('data': null, a body that is a
\*              list), failing in data.get / the for loop / len().
FetchErrors == {"RequestException", "JSONDecodeError", "TypeError"}

\* ---- pure functions of the program ----

\* .get('block_timestamp', 0) / .get('timestamp', 0)
GetTimestamp(r) ==
  IF r.ts_type = "absent" THEN [type |-> "int", val |-> 0]
  ELSE [type |-> r.ts_type, val |-> r.ts]

\* `if timestamp:`
Truthy(t) == \/ t.type = "str"
             \/ t.type = "int" /\ t.val # 0

\* datetime.fromtimestamp(timestamp / 1000): milliseconds to a datetime
\* (variant: the field read as microseconds)
FromTimestampMicros(ms) == ms
FromTimestampMs(ms) == ms * 1000

\* datetime.now() - timedelta(minutes=10)
\* (variant: the grace window added instead of subtracted)
InitialLastCheckTimeSignSlip(now) == now + GRACE
InitialLastCheckTime(now) == now - GRACE

\* tx_time <= self.last_check_time
\* (variant: strict comparison)
NotNewerStrict(tx_time, last_check) == tx_time < last_check
NotNewer(tx_time, last_check) == tx_time <= last_check

\* is_new_transaction: "True", "False", or the exception it raises
IsNewTransaction(tx_hash, timestamp, processed, last_check) ==
  IF tx_hash \in processed THEN "False"
  ELSE IF Truthy(timestamp)
       THEN IF timestamp.type = "str" THEN "TypeError"
            ELSE IF NotNewer(FromTimestampMs(timestamp.val), last_check)
                 THEN "False" ELSE "True"
       ELSE "True"

\* `if tx_hash and self.is_new_transaction(tx_hash, timestamp)`
\* (variant: the test of tx_hash left out)
VerdictOfAnyHash(r, processed, last_check) ==
  IsNewTransaction(r.hash, GetTimestamp(r), processed, last_check)
Verdict(r, processed, last_check) ==
  IF r.hash = "" THEN "False"
  ELSE IsNewTransaction(r.hash, GetTimestamp(r), processed, last_check)

\* format_transaction_message / format_token_transfer_message: the message
\* built, or the exception that leaves the function.  The inner try turns an
\* unparseable amount into 0; the outer `except Exception` returns the one-line
\* message with the hash.
\* (variant: without the outer except clause)
FormatMessageUnguarded(r) ==
  CASE r.meta = "well_formed" -> "full"
    [] r.meta = "amount_abc" -> "full_amount_0"
    [] OTHER -> "AttributeError"
FormatMessage(r) ==
  CASE r.meta = "well_formed" -> "full"
    [] r.meta = "amount_abc" -> "full_amount_0"
    [] OTHER -> "minimal"

Messages == {"full", "full_amount_0", "minimal"}

\* the outcomes of one call of the Telegram API (every failure of
\* requests.post and raise_for_status is a RequestException), and what
\* send_telegram_message does with them: it returns in both cases
SendOutcomes == {"ack", "RequestException"}
SendTelegramMessage(outcome) == IF outcome = "ack" THEN "json" ELSE "None"

\* One iteration of a `for` loop of process_transactions: the set after it,
\* the record a message was sent for, and the exception it raised, if any.
\* (variant: the hash is not added inside the loop)
IterationWithoutAdd(r, processed, last_check) ==
  LET v == Verdict(r, processed, last_check)
  IN [seen |-> processed,
      sent |-> IF v = "True" THEN <<r>> ELSE <<>>,
      error |-> IF v = "TypeError" THEN "TypeError" ELSE "none"]
\* (variant: the hash of a rejected record is added too)
IterationAddsRejected(r, processed, last_check) ==
  LET v == Verdict(r, processed, last_check)
  IN [seen |-> IF v # "TypeError" /\ r.hash # "" THEN processed \cup {r.hash} ELSE processed,
      sent |-> IF v = "True" THEN <<r>> ELSE <<>>,
      error |-> IF v = "TypeError" THEN "TypeError" ELSE "none"]
Iteration(r, processed, last_check) ==
  LET v == Verdict(r, processed, last_check)
      m == FormatMessage(r)
      rendered == v = "True" /\ m \in Messages
  IN [seen |-> IF rendered THEN processed \cup {r.hash} ELSE processed,
      sent |-> IF rendered THEN <<r>> ELSE <<>>,
      error |-> IF v = "TypeError" THEN "TypeError"
                ELSE IF v = "True" /\ m \notin Messages THEN m
                ELSE "none"]

\* One `for` loop of process_transactions over a page: the set after the
\* loop, the records a message was sent for (in order), and the exception
\* that ended the loop, if any.  The iterations run in page order, each on the
\* set the previous one left; the page is split in halves to keep the
\* evaluation shallow.
\* (variant: the later half reported first)
RECURSIVE LoopReversed(_, _, _)
LoopReversed(page, processed, last_check) ==
  IF page = <<>> THEN [seen |-> processed, sent |-> <<>>, error |-> "none"]
  ELSE IF Len(page) = 1 THEN Iteration(page[1], processed, last_check)
  ELSE LET h == Len(page) \div 2
           first == LoopReversed(SubSeq(page, 1, h), processed, last_check)
       IN IF first.error # "none" THEN first
          ELSE LET rest == LoopReversed(SubSeq(page, h + 1, Len(page)), first.seen, last_check)
               IN [seen |-> rest.seen,
                   sent |-> rest.sent \o first.sent,
                   error |-> rest.error]
RECURSIVE Loop(_, _, _)
Loop(page, processed, last_check) ==
  IF page = <<>> THEN [seen |-> processed, sent |-> <<>>, error |-> "none"]
  ELSE IF Len(page) = 1 THEN Iteration(page[1], processed, last_check)
  ELSE LET h == Len(page) \div 2
           first == Loop(SubSeq(page, 1, h), processed, last_check)
       IN IF first.error # "none" THEN first
          ELSE LET rest == Loop(SubSeq(page, h + 1, Len(page)), first.seen, last_check)
               IN [seen |-> rest.seen,
                   sent |-> first.sent \o rest.sent,
                   error |-> rest.error]

\* the except clauses of the two fetchers
CaughtByGetTokenTransfers(e) == e = "RequestException"
CaughtByGetTransactions(e) == e \in {"RequestException", "JSONDecodeError"}

\* `except Exception` of run
\* (variant: a narrower except clause)
CaughtByRunOnlyRequestErrors(e) == e = "RequestException"
CaughtByRun(e) == e \in FetchErrors \cup {"AttributeError"}

\* self.last_check_time = current_time
\* (variant: the assignment left out)
NextLastCheckTimeKept(cur, last_check) == last_check
\* (variant: ten milliseconds added)
NextLastCheckTimeLater(cur, last_check) == cur + 10 * 1000
NextLastCheckTime(cur, last_check) == cur

\* KeyboardInterrupt at position `at` of run: `break` when it arrives inside the try,
\* an exception that leaves run() when it arrives in the except clause
\* (variant: swallowed in the except clause)
AfterKeyboardInterruptSwallowed(at) == IF at = "except" THEN "start" ELSE "stopped"
AfterKeyboardInterrupt(at) == "stopped"

\* ---- clean-up of processed_transactions ----
\* set(list(self.processed_transactions)[-500:]): the last 500 elements in the
\* iteration order of a set of strings, which is the order of their (salted)
\* hashes and not the order of insertion: any 500 elements may be the ones
\* kept.  The model chooses which of the tracked hashes are kept, and fills up
\* with either the newest or the oldest of the other hashes.
FillerIdx(S, n) == {i \in 1..n : FillerHash(i) \in S}

Newest(F, k) == {i \in F : Cardinality({j \in F : j > i}) < k}
Oldest(F, k) == {i \in F : Cardinality({j \in F : j < i}) < k}

KeptSets(S, n) ==
  LET F == FillerIdx(S, n)
      T == S \ {FillerHash(i) : i \in F}
  IN UNION { LET k == KEEP - Cardinality(K)
             IN { K \cup {FillerHash(i) : i \in Newest(F, k)},
                  K \cup {FillerHash(i) : i \in Oldest(F, k)} }
           : K \in {X \in SUBSET T : Cardinality(S) - Cardinality(T) >= KEEP - Cardinality(X)} }

\* if len(self.processed_transactions) > 1000: ...
CleanUp(S, n) ==
  IF Cardinality(S) > HIGH_WATER THEN KeptSets(S, n) ELSE {S}

\* ---- state ----
VARIABLES
  pc,                      \* position of run(): see the actions
  clock,                   \* what datetime.now() returns
  last_check_time,         \* self.last_check_time
  processed_transactions,  \* self.processed_transactions
  current_time,            \* local of process_transactions
  transfers,               \* local of process_transactions
  transactions,            \* local of process_transactions
  fetch_status,            \* per source: "pending", "ok" or the error raised inside the fetcher
  sent,                    \* per source: the records send_telegram_message was called for, this cycle
  error,                   \* the exception that left process_transactions, this cycle
  seen_at_start,           \* processed_transactions when the cycle started
  watermark_at_start,      \* last_check_time when the cycle started
  ever_admitted,           \* every hash ever added to processed_transactions
  readmitted,              \* hashes notified and added although admitted before
  minted,                  \* fresh records the source has served so far
  prev_aborted,            \* the cycle about to make its first fetch follows an aborted one
  stop_signal,             \* KeyboardInterrupt was delivered
  interrupted_at,          \* the position of run() KeyboardInterrupt arrived at
  delivery                 \* per source: the outcome of the Telegram calls of the cycle

vars == <<pc, clock, last_check_time, processed_transactions, current_time,
          transfers, transactions, fetch_status, sent, error, seen_at_start,
          watermark_at_start, ever_admitted, readmitted, minted, prev_aborted, stop_signal,
          interrupted_at, delivery>>

NoError == [at |-> "none", type |-> "none"]
NothingFetched == [transfers |-> "pending", transactions |-> "pending"]
NothingSent == [transfers |-> <<>>, transactions |-> <<>>]
NothingDelivered == [transfers |-> "none", transactions |-> "none"]

Hashes(seq) == {seq[i].hash : i \in 1..Len(seq)}
Repeated(seq) == {seq[i].hash : i \in {j \in 1..Len(seq) : \E k \in 1..(j-1) : seq[k].hash = seq[j].hash}}

\* __init__
Init ==
  /\ pc = "start"
  /\ clock = StartTime
  /\ last_check_time = InitialLastCheckTime(StartTime)
  /\ processed_transactions = {}
  /\ current_time = StartTime
  /\ transfers = <<>>
  /\ transactions = <<>>
  /\ fetch_status = NothingFetched
  /\ sent = NothingSent
  /\ error = NoError
  /\ seen_at_start = {}
  /\ watermark_at_start = InitialLastCheckTime(StartTime)
  /\ ever_admitted = {}
  /\ readmitted = {}
  /\ minted = 0
  /\ prev_aborted = FALSE
  /\ stop_signal = FALSE
  /\ interrupted_at = "none"
  /\ delivery = NothingDelivered

\* the wall clock advances
Tick ==
  /\ pc \in {"start", "update"}
  /\ clock < StartTime + MaxTicks * ClockStep
  /\ clock' = clock + ClockStep
  /\ UNCHANGED <<pc, last_check_time, processed_transactions, current_time,
                 transfers, transactions, fetch_status, sent, error,
                 seen_at_start, watermark_at_start, ever_admitted, readmitted, minted,
                 prev_aborted, stop_signal, interrupted_at, delivery>>

\* run: self.process_transactions() is entered; current_time = datetime.now()
StartCycle ==
  /\ pc = "start"
  /\ pc' = "get_token_transfers"
  /\ current_time' = clock
  /\ transfers' = <<>>
  /\ transactions' = <<>>
  /\ fetch_status' = NothingFetched
  /\ sent' = NothingSent
  /\ error' = NoError
  /\ seen_at_start' = processed_transactions
  /\ watermark_at_start' = last_check_time
  /\ delivery' = NothingDelivered
  /\ UNCHANGED <<clock, last_check_time, processed_transactions,
                 ever_admitted, readmitted, minted, prev_aborted, stop_signal,
                 interrupted_at>>

\* A response of the source: an error, or a page made of tracked records
\* followed by n fresh ones, which occurred one millisecond after the cycle
\* started (the fetch is made after current_time was read).
Responses(pages, sizes) ==
  [status : FetchErrors, page : {<<>>}, fresh : {0}]
  \cup {[status |-> "ok", page |-> p \o Bulk(minted, n, current_time \div 1000 + 1), fresh |-> n] :
          <<p, n>> \in {q \in pages \X sizes :
                          /\ Len(q[1]) + q[2] <= PAGE_LIMIT
                          /\ minted + q[2] <= MaxBulkPages * PAGE_LIMIT}}

\* transfers = self.get_token_transfers()
GetTokenTransfers(pages, sizes) ==
  /\ pc = "get_token_transfers"
  /\ \E resp \in Responses(pages, sizes) :
       /\ fetch_status' = [fetch_status EXCEPT !.transfers = resp.status]
       /\ minted' = minted + resp.fresh
       /\ IF resp.status = "ok" \/ CaughtByGetTokenTransfers(resp.status)
          THEN /\ transfers' = resp.page
               /\ pc' = "transfers_loop"
               /\ error' = error
          ELSE /\ transfers' = transfers
               /\ pc' = "raised"
               /\ error' = [at |-> "get_token_transfers", type |-> resp.status]
  /\ prev_aborted' = FALSE
  /\ UNCHANGED <<clock, last_check_time, processed_transactions, current_time,
                 transactions, sent, seen_at_start, watermark_at_start, ever_admitted, readmitted,
                 stop_signal, interrupted_at, delivery>>

\* for transfer in transfers: ...   (the Telegram API answers every
\* send_telegram_message of the loop with one of `outcomes`)
TransfersLoop(outcomes) ==
  /\ pc = "transfers_loop"
  /\ LET res == Loop(transfers, processed_transactions, last_check_time)
     IN /\ processed_transactions' = res.seen
        /\ \E d \in IF res.sent = <<>> THEN {"none"}
                     ELSE {SendTelegramMessage(o) : o \in outcomes} :
             delivery' = [delivery EXCEPT !.transfers = d]
        /\ sent' = [sent EXCEPT !.transfers = res.sent]
        /\ ever_admitted' = ever_admitted \cup Hashes(res.sent)
        /\ readmitted' = readmitted \cup (Hashes(res.sent) \cap ever_admitted)
                                    \cup Repeated(res.sent)
        /\ IF res.error = "none"
           THEN pc' = "get_transactions" /\ error' = error
           ELSE /\ pc' = "raised"
                /\ error' = [at |-> "transfers_loop", type |-> res.error]
  /\ UNCHANGED <<clock, last_check_time, current_time, transfers, transactions,
                 fetch_status, seen_at_start, watermark_at_start, minted,
                 prev_aborted, stop_signal, interrupted_at>>

\* transactions = self.get_transactions()
GetTransactions(pages, sizes) ==
  /\ pc = "get_transactions"
  /\ \E resp \in Responses(pages, sizes) :
       /\ fetch_status' = [fetch_status EXCEPT !.transactions = resp.status]
       /\ minted' = minted + resp.fresh
       /\ IF resp.status = "ok" \/ CaughtByGetTransactions(resp.status)
          THEN /\ transactions' = resp.page
               /\ pc' = "transactions_loop"
               /\ error' = error
          ELSE /\ transactions' = transactions
               /\ pc' = "raised"
               /\ error' = [at |-> "get_transactions", type |-> resp.status]
  /\ UNCHANGED <<clock, last_check_time, processed_transactions, current_time,
                 transfers, sent, seen_at_start, watermark_at_start, ever_admitted, readmitted,
                 prev_aborted, stop_signal, interrupted_at, delivery>>

\* for tx in transactions: ...
TransactionsLoop(outcomes) ==
  /\ pc = "transactions_loop"
  /\ LET res == Loop(transactions, processed_transactions, last_check_time)
     IN /\ processed_transactions' = res.seen
        /\ \E d \in IF res.sent = <<>> THEN {"none"}
                     ELSE {SendTelegramMessage(o) : o \in outcomes} :
             delivery' = [delivery EXCEPT !.transactions = d]
        /\ sent' = [sent EXCEPT !.transactions = res.sent]
        /\ ever_admitted' = ever_admitted \cup Hashes(res.sent)
        /\ readmitted' = readmitted \cup (Hashes(res.sent) \cap ever_admitted)
                                    \cup Repeated(res.sent)
        /\ IF res.error = "none"
           THEN pc' = "update" /\ error' = error
           ELSE /\ pc' = "raised"
                /\ error' = [at |-> "transactions_loop", type |-> res.error]
  /\ UNCHANGED <<clock, last_check_time, current_time, transfers, transactions,
                 fetch_status, seen_at_start, watermark_at_start, minted,
                 prev_aborted, stop_signal, interrupted_at>>

\* self.last_check_time = current_time, then the clean-up; the function returns
UpdateAndCleanUp ==
  /\ pc = "update"
  /\ last_check_time' = NextLastCheckTime(current_time, last_check_time)
  /\ processed_transactions' \in CleanUp(processed_transactions, minted)
  /\ pc' = "sleep"
  /\ UNCHANGED <<clock, current_time, transfers, transactions, fetch_status,
                 sent, error, seen_at_start, watermark_at_start, ever_admitted, readmitted, minted,
                 prev_aborted, stop_signal, interrupted_at, delivery>>

\* process_transactions is over: its locals are gone, and what the next
\* cycle will start from is the state of the object
LocalsDropped ==
  /\ current_time' = StartTime
  /\ transfers' = <<>>
  /\ transactions' = <<>>
  /\ fetch_status' = NothingFetched
  /\ sent' = NothingSent
  /\ error' = NoError
  /\ delivery' = NothingDelivered
  /\ seen_at_start' = processed_transactions
  /\ watermark_at_start' = last_check_time

\* time.sleep(self.INTERVAL) of the try block, then the next iteration
Sleep ==
  /\ pc = "sleep"
  /\ pc' = "start"
  /\ prev_aborted' = FALSE
  /\ LocalsDropped
  /\ UNCHANGED <<clock, last_check_time, processed_transactions,
                 ever_admitted, readmitted, minted, stop_signal, interrupted_at>>

\* the exception reaches the try of run: `except Exception` logs it
ExceptException ==
  /\ pc = "raised"
  /\ pc' = IF CaughtByRun(error.type) THEN "except" ELSE "crashed"
  /\ UNCHANGED <<clock, last_check_time, processed_transactions, current_time,
                 transfers, transactions, fetch_status, sent, error,
                 seen_at_start, watermark_at_start, ever_admitted, readmitted, minted,
                 prev_aborted, stop_signal, interrupted_at, delivery>>

\* time.sleep(self.INTERVAL) of the except clause, then the next iteration
SleepAfterError ==
  /\ pc = "except"
  /\ pc' = "start"
  /\ prev_aborted' = TRUE
  /\ LocalsDropped
  /\ UNCHANGED <<clock, last_check_time, processed_transactions,
                 ever_admitted, readmitted, minted, stop_signal, interrupted_at>>

\* KeyboardInterrupt: `except KeyboardInterrupt: break` inside the try, and an
\* uncaught exception leaving run() when it arrives in the except clause
KeyboardInterrupt ==
  /\ pc \notin {"stopped", "crashed"}
  /\ pc' = AfterKeyboardInterrupt(pc)
  /\ stop_signal' = TRUE
  /\ interrupted_at' = pc
  /\ LocalsDropped
  /\ UNCHANGED <<clock, last_check_time, processed_transactions,
                 ever_admitted, readmitted, minted, prev_aborted>>

\* ---- the short-run environment: small pages of tracked records ----
Step ==
  \/ StartCycle
  \/ GetTokenTransfers(ShortTransfers, {0})
  \/ TransfersLoop(SendOutcomes)
  \/ GetTransactions(ShortTransactions, {0})
  \/ TransactionsLoop(SendOutcomes)
  \/ UpdateAndCleanUp
  \/ Sleep
  \/ ExceptException
  \/ SleepAfterError

Next ==
  \/ Step
  \/ Tick
  \/ KeyboardInterrupt

Spec == Init /\ [][Next]_vars

\* ---- the loop under fair scheduling: pages of one record ----
\* run() is a sequential loop: each statement, once reached, is executed, and
\* every HTTP call returns or raises within its timeout.
LivePages == {<<>>, <<RecC>>, <<RecD>>, <<RecE>>}

LiveStep ==
  \/ StartCycle
  \/ GetTokenTransfers(LivePages, {0})
  \/ TransfersLoop(SendOutcomes)
  \/ GetTransactions(LivePages, {0})
  \/ TransactionsLoop(SendOutcomes)
  \/ UpdateAndCleanUp
  \/ Sleep
  \/ ExceptException
  \/ SleepAfterError

LiveNext ==
  \/ LiveStep
  \/ Tick
  \/ KeyboardInterrupt

FairSpec == Init /\ [][LiveNext]_vars /\ WF_vars(LiveStep)

\* ---- the long-run environment: full pages of fresh records ----
LongStep ==
  \/ StartCycle
  \/ GetTokenTransfers({<<>>}, {0, PAGE_LIMIT})
  \/ TransfersLoop(SendOutcomes)
  \/ GetTransactions(LongPages, {0})
  \/ TransactionsLoop(SendOutcomes)
  \/ UpdateAndCleanUp
  \/ Sleep
  \/ ExceptException
  \/ SleepAfterError

LongNext ==
  \/ LongStep
  \/ Tick
  \/ KeyboardInterrupt

LongRun == Init /\ [][LongNext]_vars

\* ---- properties ----
Fetched == transfers \o transactions
Sent == sent.transfers \o sent.transactions
Records(seq) == {seq[i] : i \in 1..Len(seq)}
BetweenCycles == pc \in {"start", "sleep", "except"}
CycleOver == pc \in {"sleep", "except"}
KnownTimestamp(r) == r.ts_type = "int" /\ r.ts # 0
UnknownTimestamp(r) == r.ts_type = "absent" \/ (r.ts_type = "int" /\ r.ts = 0)

\* C1: no transaction hash is notified and added to processed_transactions
\* twice over the lifetime of the process, also after the clean-up of the set.
AtMostOnceAdmission == readmitted = {}

\* C2: between cycles, completed or aborted, processed_transactions holds at
\* most 1000 hashes.
BoundedMemory ==
  BetweenCycles => Cardinality(processed_transactions) <= HIGH_WATER

\* C3 as stated: once both loops of a cycle have classified the fetched
\* records, every fetched hash has been admitted, now or before: no event is
\* rejected because the watermark was advanced past its timestamp.
NoLossByWatermarkAdvance ==
  pc = "update" =>
    \A r \in Records(Fetched) : r.hash # "" => r.hash \in ever_admitted

\* C3 as amended: a hash that is not in processed_transactions when the cycle
\* starts is admitted by the cycle exactly when one of its fetched records has
\* an unknown timestamp or a timestamp strictly greater than the watermark.
AdmittedIffNewerThanWatermark ==
  pc = "update" =>
    \A r \in Records(Fetched) :
      (r.hash # "" /\ r.hash \notin seen_at_start) =>
        ( r.hash \in processed_transactions
          <=> \E q \in Records(Fetched) :
                /\ q.hash = r.hash
                /\ \/ UnknownTimestamp(q)
                   \/ q.ts * 1000 > watermark_at_start )

\* a record first fetched after the watermark was advanced, admitted
LateArrivalAdmitted ==
  /\ pc = "update"
  /\ watermark_at_start >= StartTime
  /\ RecC \in Records(Fetched)
  /\ "c" \notin seen_at_start
  /\ "c" \in processed_transactions

\* C4: when a cycle is over, every fetched record with a hash and without a
\* timestamp has been admitted, and none has been admitted twice.
UnknownTimestampNotStarved ==
  /\ CycleOver =>
       \A r \in Records(Fetched) :
         (r.hash # "" /\ UnknownTimestamp(r)) => r.hash \in ever_admitted
  /\ "d" \notin readmitted

FetchFailureIsolated ==
  /\ fetch_status.transfers \in FetchErrors =>
       error.at # "get_token_transfers" /\ pc # "raised"
  /\ fetch_status.transactions \in FetchErrors =>
       error.at # "get_transactions" /\ transactions = <<>>
  /\ (pc = "sleep" /\ (\E f \in {"transfers", "transactions"} : fetch_status[f] \in FetchErrors))
       => last_check_time = current_time

\* C7: an exception that leaves process_transactions is followed by the start
\* of a next cycle unless the stop signal arrives, and the loop is left only
\* after the stop signal.
NeverTerminatedByError ==
  /\ [](pc = "raised" => <>(pc = "get_token_transfers" \/ stop_signal))
  /\ [](pc \in {"stopped", "crashed"} => stop_signal)

\* a cycle started after the previous one was aborted
RestartedAfterError == prev_aborted /\ pc = "get_token_transfers"

\* C8: every record a cycle admits has an unknown timestamp or a timestamp
\* strictly greater than the watermark the cycle classified it against.
InclusiveRejectBoundary ==
  \A r \in Records(Sent) :
    UnknownTimestamp(r) \/ (KnownTimestamp(r) /\ r.ts * 1000 > watermark_at_start)

\* a record whose timestamp equals the watermark was classified and rejected
RejectedAtBoundary ==
  /\ pc = "update"
  /\ RecC \in Records(Fetched)
  /\ RecC.ts * 1000 = watermark_at_start
  /\ "c" \notin processed_transactions

\* C9: scenario A (empty set, watermark 50 ms, [a at 100, b at 200]) admits a
\* then b and leaves the watermark at the start time of the cycle; scenario B
\* (the state scenario A leaves, [a at 100, c at T1 + 10]) admits c only.
ScenarioAB ==
  /\ ( /\ pc = "sleep"
       /\ seen_at_start = {}
       /\ watermark_at_start = 50 * 1000
       /\ Fetched = <<RecA, RecB>> )
     => ( /\ Sent = <<RecA, RecB>>
          /\ processed_transactions = {"a", "b"}
          /\ last_check_time = current_time )
  /\ ( /\ pc = "sleep"
       /\ seen_at_start = {"a", "b"}
       /\ watermark_at_start = RecC.ts * 1000 - 10 * 1000
       /\ Fetched = <<RecA, RecC>> )
     => ( /\ Sent = <<RecC>>
          /\ processed_transactions = {"a", "b", "c"} )

\* scenario B has run from the state scenario A leaves
ScenarioBDone ==
  /\ pc = "sleep"
  /\ seen_at_start = {"a", "b"}
  /\ watermark_at_start = StartTime
  /\ Fetched = <<RecA, RecC>>
  /\ Sent = <<RecC>>

\* C10: nothing is notified or added to processed_transactions before both
\* fetches of the cycle have returned.
FetchBeforeAdmit ==
  fetch_status.transactions = "pending" =>
    sent.transfers = <<>> /\ processed_transactions = seen_at_start

\* ---- the clean-up, error isolation, ordering, stop signal, rendering ----
InCycle ==
  pc \in {"get_token_transfers", "transfers_loop", "get_transactions",
          "transactions_loop", "update", "raised", "except"}
Eligible(r) ==
  /\ r.hash # ""
  /\ r.hash \notin seen_at_start
  /\ UnknownTimestamp(r) \/ (KnownTimestamp(r) /\ r.ts * 1000 > watermark_at_start)
WithHash(seq) == SelectSeq(seq, LAMBDA r : r.hash # "")
RECURSIVE IsSubsequence(_, _)
IsSubsequence(s, t) ==
  IF s = <<>> THEN TRUE
  ELSE IF t = <<>> THEN FALSE
  ELSE IF Head(s) = Head(t) THEN IsSubsequence(Tail(s), Tail(t))
  ELSE IsSubsequence(s, Tail(t))

\* C11: when a completed cycle leaves more than 1000 hashes, the clean-up
\* keeps exactly the 500 most recently inserted ones: 500 hashes of the set,
\* all those the cycle itself inserted, and no fresh record's hash without the
\* hashes of the fresh records served (hence inserted) after it; a set of at
\* most 1000 hashes is left as it is.
CleanUpKeepsNewest ==
  pc = "sleep" =>
    LET before == seen_at_start \cup Hashes(Sent)
        fresh == FillerIdx(before, minted)
    IN IF Cardinality(before) > HIGH_WATER
       THEN /\ Cardinality(processed_transactions) = KEEP
            /\ processed_transactions \subseteq before
            /\ Hashes(Sent) \subseteq processed_transactions
            /\ \A i \in fresh :
                 FillerHash(i) \in processed_transactions =>
                   \A j \in fresh : j > i => FillerHash(j) \in processed_transactions
       ELSE processed_transactions = before

\* C12: a record whose timestamp is a string never aborts a loop of the
\* cycle, and is admitted as a record of unknown timestamp is.
UnparseableTimestampIsolated ==
  /\ error.at \notin {"transfers_loop", "transactions_loop"}
  /\ pc = "update" =>
       \A r \in Records(Fetched) :
         (r.ts_type = "str" /\ r.hash # "" /\ r.hash \notin seen_at_start)
           => r.hash \in processed_transactions

\* C13: whatever the Telegram API answered, a hash a message was sent for is
\* in processed_transactions for the rest of the cycle, and no message is
\* sent for it a second time, in that cycle or a later one.
DeliveryFailureKeepsAdmission ==
  /\ (InCycle /\ delivery # NothingDelivered) => Hashes(Sent) \subseteq processed_transactions
  /\ Repeated(Sent) = {}
  /\ \A h \in ever_admitted : h \notin readmitted

\* C14: the hash is added inside the iteration that admits it: a hash fetched
\* more than once in a cycle, in one page or in both, is sent once.
ImmediateInsertion ==
  /\ \A i, j \in 1..Len(Sent) : Sent[i].hash = Sent[j].hash => i = j
  /\ InCycle => Hashes(Sent) \subseteq processed_transactions

\* the same new hash in the page of transfers and in the page of
\* transactions, admitted by the first loop only
DuplicateAdmittedOnce ==
  /\ pc = "update"
  /\ RecD \in Records(transfers)
  /\ RecD \in Records(transactions)
  /\ "d" \notin seen_at_start
  /\ sent.transfers = <<RecD>>
  /\ sent.transactions = <<>>

\* C15: after a completed cycle last_check_time is the time read when the
\* cycle started; inside a cycle, and after an aborted one, it is what it was
\* when the cycle started; only the last step of a cycle changes it.
WatermarkUpdateRule ==
  /\ [](pc = "sleep" => last_check_time = current_time)
  /\ [](InCycle => last_check_time = watermark_at_start)
  /\ [][last_check_time' # last_check_time => (pc = "update" /\ pc' = "sleep")]_vars

\* a completed cycle during which the clock moved: the watermark is the start
\* time, not the end time
WatermarkIsStartTime ==
  /\ pc = "sleep"
  /\ clock > current_time
  /\ last_check_time = current_time
  /\ last_check_time > watermark_at_start

\* C16 as stated: after an aborted cycle processed_transactions and
\* last_check_time are what they were when the cycle started.
AbortedCycleIsNoOp ==
  pc = "except" =>
    /\ processed_transactions = seen_at_start
    /\ last_check_time = watermark_at_start

\* C16 as amended: after an aborted cycle last_check_time is what it was when
\* the cycle started, and processed_transactions is what it was then plus
\* the hashes a message was sent for before the exception.
AbortedCycleKeepsNotified ==
  pc = "except" =>
    /\ processed_transactions = seen_at_start \cup Hashes(Sent)
    /\ last_check_time = watermark_at_start

\* a cycle aborted after it had sent a message
AbortedAfterAdmission ==
  /\ pc = "except"
  /\ Sent # <<>>
  /\ processed_transactions # seen_at_start

\* C17: the messages of a cycle are sent in the order the records were
\* fetched: transfers first, then transactions, each in page order.
StableOutputOrder ==
  /\ IsSubsequence(sent.transfers, transfers)
  /\ IsSubsequence(sent.transactions, transactions)
  /\ IsSubsequence(Sent, Fetched)

\* two admitted records of one page with a different order of timestamps and
\* of hashes, and a rejected record between admitted ones
OrderKeptAroundRejected ==
  /\ pc = "update"
  /\ transfers = <<RecB, RecA>>
  /\ transactions = <<RecA>>
  /\ Sent = <<RecB, RecA>>

\* C18: run() ends by KeyboardInterrupt only: every other position of the
\* loop has a next statement; KeyboardInterrupt at any position ends the loop
\* and nothing is executed after it.
StopSignalEndsLoop ==
  /\ [](pc # "stopped" => ENABLED LiveStep)
  /\ [](stop_signal <=> pc = "stopped")
  /\ [][~stop_signal]_vars

\* KeyboardInterrupt delivered during the sleep of the except clause
StoppedDuringErrorSleep ==
  /\ pc = "stopped"
  /\ interrupted_at = "except"

\* C19: every eligible record of a completed pair of loops was rendered, sent
\* and added, whatever the state of the fields the renderer reads, and no
\* cycle is aborted by a renderer.
RenderingNeverDrops ==
  /\ error.type # "AttributeError"
  /\ \A r \in Records(Sent) : FormatMessage(r) \in Messages
  /\ pc = "update" =>
       \A r \in Records(Fetched) :
         Eligible(r) => (r.hash \in Hashes(Sent) /\ r.hash \in processed_transactions)

\* a record with amount "abc" and a record the renderer throws on, both sent
RenderedDegraded ==
  /\ pc = "get_transactions"
  /\ sent.transfers = <<RecB, RecC>>
  /\ FormatMessage(RecB) = "full_amount_0"
  /\ FormatMessage(RecC) = "minimal"
  /\ {"b", "c"} \subseteq processed_transactions

\* C20: a record without a hash is never sent or added and leaves the
\* outcome of the loop as it is without it; every element of
\* processed_transactions is a non-empty hash a message was sent for.
RecordsWithoutHashIgnored ==
  /\ "" \notin processed_transactions
  /\ \A r \in Records(Sent) : r.hash # ""
  /\ processed_transactions \subseteq ever_admitted
  /\ pc \in {"get_transactions", "transactions_loop"} =>
       sent.transfers = Loop(WithHash(transfers), seen_at_start, watermark_at_start).sent

\* a record without a hash in front of a record that is admitted
NoHashSkipped ==
  /\ pc = "get_transactions"
  /\ transfers = <<RecNoHash, RecC>>
  /\ sent.transfers = <<RecC>>
  /\ processed_transactions = seen_at_start \cup {"c"}

====
